---- MODULE Spec2Model ----
(***************************************************************************)
(* Model of integram's HTTP handlers (handlers.go): the token-addressed    *)
(* webhook router serviceHookHandler with its dispatch loop, the OAuth     *)
(* handlers oAuthInitRedirect / oAuthCallback, the internal event fan-out  *)
(* Service.TriggerEventHandler, and the store session each of them holds.  *)
(*                                                                         *)
(* Each HTTP request runs in a slot r of `req` (one goroutine per          *)
(* request).  Calls to collaborators (store lookups, service handlers,     *)
(* provider exchanges) are the points where a request takes a step; their  *)
(* results are drawn from small sets.                                      *)
(***************************************************************************)
EXTENDS Integers, Sequences, FiniteSets, TLC

VARIABLES
    users,        \* collection "users": set of userData documents
    chats,        \* collection "chats": set of chatData documents
    users_cache,  \* collection "users_cache": OAuth correlation records
    files,        \* ./raw directory: file name -> content
    now,          \* time.Now().Unix()
    req,          \* per-request handler state (locals, response, position)
    jobs          \* jobs scheduled with Service.DoJob

vars == <<users, chats, users_cache, files, now, req, jobs>>

----------------------------------------------------------------------------
(* Bounds *)

MaxReq == 2         \* request slots (concurrent requests)
MaxServices == 2    \* longest Hook.Services
MaxChats == 2       \* longest Hook.Chats
MaxMatches == 2     \* longest FindChats / FindUsers result
MaxClock == 1       \* last clock second

Reqs == 1..MaxReq

----------------------------------------------------------------------------
(* Values *)

SeqsUpTo(S, n) == UNION {[1..k -> S] : k \in 0..n}

Range(s) == {s[k] : k \in DOMAIN s}

EmptyMap == [k \in {} |-> ""]

\* Tokens are strings; the code reads their first character (token[0:1]),
\* so a token is modelled as its sequence of characters.
TokU == <<"u", "1">>
TokU2 == <<"u", "2">>
TokUX == <<"u", "9">>
TokC == <<"c", "1">>
TokH == <<"h", "1">>
TokC2 == <<"c", "2">>
TokCX == <<"c", "9">>
TokBad == <<"x", "1">>
TokService == <<"s", "e", "r", "v", "i", "c", "e">>

PathTokens == {TokU, TokUX, TokC, TokH, TokCX, TokBad, TokService}

\* Names a Hook may list and a path may carry; "x" is not registered.
ServiceNames == {"a", "b", "x"}

TargetChats == {10, 20}

Payloads == {"p1", "p2"}

\* Result of a WebhookHandler call: nil, an error, ErrorFlood, or a panic.
ErrorFlood == "flood"
HandlerResults == {"nil", "err", ErrorFlood, "panic"}

----------------------------------------------------------------------------
(* Service registry (statically configured) *)

\* "a": OAuth2 with the default code exchange; "b": OAuth1; "c": OAuth2 with
\* its own DefaultOAuth2.AccessTokenReceiver; "d": no OAuth at all.
\* Every service has a WebhookHandler; only "a" has a TokenHandler; "a" and
\* "c" have an EventHandler.

services ==
    [a |-> [Name |-> "a", TokenHandler |-> TRUE,
            DefaultOAuth1 |-> FALSE, DefaultOAuth2 |-> TRUE,
            AccessTokenReceiver |-> FALSE, OAuthSuccessful |-> TRUE,
            EventHandler |-> TRUE],
     b |-> [Name |-> "b", TokenHandler |-> FALSE,
            DefaultOAuth1 |-> TRUE, DefaultOAuth2 |-> FALSE,
            AccessTokenReceiver |-> FALSE, OAuthSuccessful |-> FALSE,
            EventHandler |-> FALSE],
     c |-> [Name |-> "c", TokenHandler |-> FALSE,
            DefaultOAuth1 |-> FALSE, DefaultOAuth2 |-> TRUE,
            AccessTokenReceiver |-> TRUE, OAuthSuccessful |-> TRUE,
            EventHandler |-> TRUE],
     d |-> [Name |-> "d", TokenHandler |-> FALSE,
            DefaultOAuth1 |-> FALSE, DefaultOAuth2 |-> FALSE,
            AccessTokenReceiver |-> FALSE, OAuthSuccessful |-> FALSE,
            EventHandler |-> FALSE]]

Nil == [Name |-> ""]

serviceByName(name) == IF name \in DOMAIN services THEN services[name] ELSE Nil

SliceContainsString(slice, s) == \E k \in 1..Len(slice) : slice[k] = s

----------------------------------------------------------------------------
(* Documents *)

ZeroUserData == [ID |-> 0, Hooks |-> <<>>, Settings |-> EmptyMap,
                 Protected |-> EmptyMap, tz |-> ""]

ZeroChatData == [ID |-> 0, Hooks |-> <<>>]

ZeroHook == [Token |-> <<>>, Services |-> <<>>, Chats |-> <<>>]

ZeroContext == [ServiceName |-> "", User |-> 0, Chat |-> 0]

\* an oAuthIDCache record of users_cache, without the "auth_" key prefix
ZeroOAuthIDCache == [key |-> "", UserID |-> 0, Service |-> "", BaseURL |-> "",
                     RequestToken |-> ""]

ZeroProtected == [OAuthToken |-> "", OAuthRefreshToken |-> "", OAuthExpireDate |-> 0]

ZeroRequest ==
    [pc |-> "idle", handler |-> "", token |-> <<>>, service |-> "",
     payload |-> "", ctx |-> ZeroContext, user |-> ZeroUserData,
     hooks |-> <<>>, hook |-> ZeroHook, si |-> 0, ci |-> 0,
     isHandled |-> FALSE, found |-> <<>>, queryChat |-> FALSE, query |-> "",
     \* oAuthInitRedirect / oAuthCallback
     authTempID |-> "", val |-> ZeroOAuthIDCache, oauthProviderID |-> "",
     code |-> "", tz |-> "", accessToken |-> "", refreshToken |-> "",
     expiresAt |-> 0, requestToken |-> "",
     \* the response: status 0 and body "" while nothing is written
     status |-> 0, body |-> "", location |-> "",
     \* history of an OAuth request: how the exchange step was taken, the
     \* provider calls made, the collections written, the job scheduled
     exchange |-> "", providerCalls |-> 0, writes |-> <<>>, scheduled |-> FALSE,
     \* the collections a webhook delivery has searched, in order
     lookups |-> <<>>,
     \* what a TriggerEventHandler call returned ("" while it has not)
     returned |-> "",
     \* store handles: sessions cloned and sessions closed so far
     handles |-> 0, closes |-> 0,
     \* history of the request, for the properties below: the WebhookHandler
     \* invocations made, the result of the latest, whether one returned a
     \* non-flood error, whether one returned ErrorFlood, the files written
     calls |-> <<>>, last |-> "", failed |-> FALSE, flooded |-> FALSE,
     written |-> <<>>]

----------------------------------------------------------------------------
(* gin response writer *)

\* cloneMiddleware, before c.Next(): s := mongoSession.Clone()
cloneMiddleware(q) == [q EXCEPT !.handles = @ + 1]

\* s.Close() / db.Session.Close()
Close(q) == [q EXCEPT !.closes = @ + 1]

\* the handler is over: c.Next() returns into cloneMiddleware, whose
\* deferred s.Close() runs
Returned(q) == Close([q EXCEPT !.pc = "done"])

\* c.String(code, body), then return
String(q, code, text) == Returned([q EXCEPT !.status = code, !.body = text])

\* c.AbortWithStatus(code) / c.AbortWithError(code, err), then return:
\* status, no body
AbortWithStatus(q, code) == Returned([q EXCEPT !.status = code])

\* Return with the bug "a handler that writes no response keeps its session"
Return_Leaks(q) == [q EXCEPT !.pc = "done"]

\* a plain `return`: nothing is written to the response
Return(q) == Returned(q)

\* c.Redirect(302, location), at the end of the handler
Redirect(q, code, location) ==
    Returned([q EXCEPT !.status = code, !.location = location])

\* ginRecovery: a panic anywhere below it is answered with 500
ginRecovery(q) == String(q, 500, "Oops. Something not good.")

----------------------------------------------------------------------------
(* serviceHookHandler: entry and resolution mode *)

\* POST /:param, POST /:param/:service, GET /service/:service; the last pair
\* is the handler entered with neither parameter set
Routes ==
    {<<t, "">> : t \in PathTokens}
    \cup {<<t, s>> : t \in PathTokens, s \in ServiceNames}
    \cup {<<<<>>, s>> : s \in ServiceNames}
    \cup {<<<<>>, "">>}

\* Mode with the bug "an 'h' token with a service name is a user token"
Mode_HintedHIsUser(token, service) ==
    IF service # "" /\ (token = TokService \/ token = <<>>) THEN "auto"
    ELSE IF Len(token) = 0 THEN "panic"
    ELSE IF token[1] = "u" \/ (token[1] = "h" /\ service # "") THEN "user"
    ELSE IF token[1] = "c" \/ token[1] = "h" THEN "chat"
    ELSE "notfound"

\* the if / else-if chain over token and service
Mode(token, service) ==
    IF service # "" /\ (token = TokService \/ token = <<>>) THEN "auto"
    ELSE IF Len(token) = 0 THEN "panic"
    ELSE IF token[1] = "u" THEN "user"
    ELSE IF token[1] = "c" \/ token[1] = "h" THEN "chat"
    ELSE "notfound"

hookEnterOn(r, routes) ==
    /\ req[r].pc = "idle"
    /\ \E route \in routes :
         LET token == route[1]
             service == route[2]
             q == cloneMiddleware([ZeroRequest EXCEPT
                                      !.handler = "hook", !.token = token,
                                      !.service = service,
                                      !.ctx.ServiceName = service])
             mode == Mode(token, service)
         IN req' = [req EXCEPT ![r] =
                CASE mode = "panic" -> ginRecovery(q)
                  [] mode = "notfound" -> AbortWithStatus(q, 404)
                  [] OTHER -> [q EXCEPT !.pc = mode]]
    /\ UNCHANGED <<users, chats, users_cache, files, now, jobs>>

hookEnter(r) == hookEnterOn(r, Routes)

----------------------------------------------------------------------------
(* serviceHookHandler: the dispatch loop over the matched hook *)

\* index of the first hook of `hooks` whose Token is `token`, 0 if none
FirstHook(hooks, token) ==
    IF \E k \in 1..Len(hooks) : hooks[k].Token = token
    THEN CHOOSE k \in 1..Len(hooks) :
            /\ hooks[k].Token = token
            /\ \A j \in 1..(k - 1) : hooks[j].Token # token
    ELSE 0

\* for _, hook := range hooks { if hook.Token == token { isHandled := false ...
EnterDispatch(q) ==
    LET i == FirstHook(q.hooks, q.token)
    IN IF i = 0 THEN Return(q)
       ELSE [q EXCEPT !.hook = q.hooks[i], !.isHandled = FALSE, !.si = 1,
                      !.pc = "services"]

\* ServiceStep with the bug "acknowledge only a handled hook"
ServiceStep_AckIfHandled(q) ==
    IF q.si > Len(q.hook.Services)
    THEN IF q.isHandled THEN AbortWithStatus(q, 200) ELSE AbortWithStatus(q, 404)
    ELSE LET serviceName == q.hook.Services[q.si]
             s == serviceByName(serviceName)
             Chats == IF Len(q.hook.Chats) = 0 /\ q.ctx.Chat # 0
                      THEN <<q.ctx.Chat>> ELSE q.hook.Chats
         IN IF s = Nil THEN [q EXCEPT !.si = @ + 1]
            ELSE IF Len(Chats) > 0
                 THEN [q EXCEPT !.ctx.ServiceName = serviceName,
                                !.hook.Chats = Chats, !.ci = 1, !.pc = "chats"]
                 ELSE [q EXCEPT !.ctx.ServiceName = serviceName, !.si = @ + 1]

\* ServiceStep with the bug "a hook without chats has no targets"
ServiceStep_NoImplicitChat(q) ==
    IF q.si > Len(q.hook.Services) THEN AbortWithStatus(q, 200)
    ELSE LET serviceName == q.hook.Services[q.si]
             s == serviceByName(serviceName)
         IN IF s = Nil THEN [q EXCEPT !.si = @ + 1]
            ELSE IF Len(q.hook.Chats) > 0
                 THEN [q EXCEPT !.ctx.ServiceName = serviceName,
                                !.ci = 1, !.pc = "chats"]
                 ELSE [q EXCEPT !.ctx.ServiceName = serviceName, !.si = @ + 1]

\* one iteration of `for _, serviceName := range hook.Services`, up to the
\* start of its chat loop; after the last service the request is answered 200
ServiceStep(q) ==
    IF q.si > Len(q.hook.Services) THEN AbortWithStatus(q, 200)
    ELSE LET serviceName == q.hook.Services[q.si]
             s == serviceByName(serviceName)
             Chats == IF Len(q.hook.Chats) = 0 /\ q.ctx.Chat # 0
                      THEN <<q.ctx.Chat>> ELSE q.hook.Chats
         IN IF s = Nil THEN [q EXCEPT !.si = @ + 1]
            ELSE IF Len(Chats) > 0
                 THEN [q EXCEPT !.ctx.ServiceName = serviceName,
                                !.hook.Chats = Chats, !.ci = 1, !.pc = "chats"]
                 ELSE [q EXCEPT !.ctx.ServiceName = serviceName, !.si = @ + 1]

\* WebhookReturned with the bug "the flood error is logged like any other"
WebhookReturned_FloodContinues(q, err) ==
    IF err # "nil" THEN [q EXCEPT !.ci = @ + 1]
    ELSE [q EXCEPT !.isHandled = TRUE, !.ci = @ + 1]

\* WebhookReturned with the bug "any error ends the request"
WebhookReturned_AnyErrorAborts(q, err) ==
    IF err # "nil"
    THEN IF err = ErrorFlood THEN String(q, 429, ErrorFlood)
         ELSE AbortWithStatus(q, 200)
    ELSE [q EXCEPT !.isHandled = TRUE, !.ci = @ + 1]

\* what follows `err := s.WebhookHandler(ctx, wctx)` in the dispatch loop
WebhookReturned(q, err) ==
    IF err # "nil"
    THEN IF err = ErrorFlood THEN String(q, 429, ErrorFlood)
         ELSE [q EXCEPT !.ci = @ + 1]
    ELSE [q EXCEPT !.isHandled = TRUE, !.ci = @ + 1]

\* the chat the ci-th iteration of `range hook.Chats` yields, with the bug
\* "the chats are walked backwards"
ChatAt_Backwards(hook, ci) == hook.Chats[Len(hook.Chats) + 1 - ci]

\* the chat the ci-th iteration of `range hook.Chats` yields
ChatAt(hook, ci) == hook.Chats[ci]

\* one iteration of `for _, chatID := range hook.Chats`
ChatStep(q, res) ==
    LET chatID == ChatAt(q.hook, q.ci)
        q1 == [q EXCEPT !.ctx.Chat = chatID]
        called == [q1 EXCEPT
                     !.calls = Append(@, [service |-> q.hook.Services[q.si],
                                          ctx |-> q1.ctx,
                                          user |-> q1.user]),
                     !.last = res,
                     !.failed = @ \/ res = "err",
                     !.flooded = @ \/ res = ErrorFlood]
    IN IF res = "panic" THEN ginRecovery(called)
       ELSE WebhookReturned(called, res)

hookServices(r) ==
    /\ req[r].pc = "services"
    /\ req' = [req EXCEPT ![r] = ServiceStep(@)]
    /\ UNCHANGED <<users, chats, users_cache, files, now, jobs>>

hookChats(r) ==
    /\ req[r].pc = "chats"
    /\ IF req[r].ci > Len(req[r].hook.Chats)
       THEN req' = [req EXCEPT ![r] = [@ EXCEPT !.si = @ + 1, !.pc = "services"]]
       ELSE \E res \in HandlerResults : req' = [req EXCEPT ![r] = ChatStep(@, res)]
    /\ UNCHANGED <<users, chats, users_cache, files, now, jobs>>

----------------------------------------------------------------------------
(* serviceHookHandler: user-addressed and chat-addressed resolution *)

\* ctx.FindUser(bson.M{"hooks.token": token}): the documents the query matches
UsersByToken(token) ==
    {d \in users : \E k \in 1..Len(d.Hooks) : d.Hooks[k].Token = token}

\* ctx.FindChat(bson.M{"hooks.token": token})
ChatsByToken(token) ==
    {d \in chats : \E k \in 1..Len(d.Hooks) : d.Hooks[k].Token = token}

\* for name := range m { if !SliceContainsString(hook.Services, name) { delete(m, name) } }
DeleteOthers(m, Services) ==
    [name \in {n \in DOMAIN m : SliceContainsString(Services, n)} |-> m[name]]

\* NarrowUser with the bug "Protected is left unfiltered"
NarrowUser_ProtectedKept(user, token) ==
    LET i == FirstHook(user.Hooks, token)
    IN IF i = 0 THEN user
       ELSE [user EXCEPT
               !.Hooks = SubSeq(user.Hooks, i, i),
               !.Settings = DeleteOthers(@, user.Hooks[i].Services)]

\* for i, hook := range user.Hooks { if hook.Token == token { ...; break } }
NarrowUser(user, token) ==
    LET i == FirstHook(user.Hooks, token)
    IN IF i = 0 THEN user
       ELSE [user EXCEPT
               !.Hooks = SubSeq(user.Hooks, i, i),
               !.Protected = DeleteOthers(@, user.Hooks[i].Services),
               !.Settings = DeleteOthers(@, user.Hooks[i].Services)]

\* if len(hook.Services) == 1 { ctx.ServiceName = hook.Services[0] }
NarrowServiceName(ServiceName, user, token) ==
    LET i == FirstHook(user.Hooks, token)
    IN IF i # 0 /\ Len(user.Hooks[i].Services) = 1
       THEN user.Hooks[i].Services[1] ELSE ServiceName

\* UserResolved with the bug "an unknown token is answered 410 Gone"
UserResolved_Gone(q, found, err) ==
    LET user == NarrowUser(found, q.token)
        q1 == [q EXCEPT !.user = user,
                        !.ctx.ServiceName = NarrowServiceName(@, found, q.token),
                        !.ctx.User = user.ID,
                        !.lookups = Append(@, "users")]
    IN IF ~(err = "nil" /\ user.ID > 0) THEN [q1 EXCEPT !.status = 410, !.pc = "dump"]
       ELSE EnterDispatch([q1 EXCEPT !.hooks = user.Hooks])

\* the `else if token[0:1] == "u"` branch, given FindUser's result
UserResolved(q, found, err) ==
    LET user == NarrowUser(found, q.token)
        q1 == [q EXCEPT !.user = user,
                        !.ctx.ServiceName = NarrowServiceName(@, found, q.token),
                        !.ctx.User = user.ID,
                        !.lookups = Append(@, "users")]
    IN IF ~(err = "nil" /\ user.ID > 0) THEN [q1 EXCEPT !.pc = "dump"]
       ELSE EnterDispatch([q1 EXCEPT !.hooks = user.Hooks])

\* the `else if token[0:1] == "c" || token[0:1] == "h"` branch, given FindChat's result
ChatResolved(q, chat, err) ==
    LET q1 == [q EXCEPT !.lookups = Append(@, "chats")]
    IN IF ~(err = "nil" /\ chat.ID # 0) THEN [q1 EXCEPT !.pc = "dump"]
       ELSE EnterDispatch([q1 EXCEPT !.hooks = chat.Hooks, !.ctx.Chat = chat.ID])

hookUser(r) ==
    /\ req[r].pc = "user"
    /\ \/ \E d \in UsersByToken(req[r].token) :
            req' = [req EXCEPT ![r] = UserResolved(@, d, "nil")]
       \/ req' = [req EXCEPT ![r] = UserResolved(@, ZeroUserData, "not found")]
    /\ UNCHANGED <<users, chats, users_cache, files, now, jobs>>

hookChat(r) ==
    /\ req[r].pc = "chat"
    /\ \/ \E d \in ChatsByToken(req[r].token) :
            req' = [req EXCEPT ![r] = ChatResolved(@, d, "nil")]
       \/ req' = [req EXCEPT ![r] = ChatResolved(@, ZeroChatData, "not found")]
    /\ UNCHANGED <<users, chats, users_cache, files, now, jobs>>

\* fmt.Sprintf("./raw/%v_%d.json", token, time.Now().Unix())
RawFileName(token, unix) == <<token, unix>>

\* ioutil.WriteFile(name, data, 0644): creates the file or replaces its content
WriteFile(fs, name, data) ==
    [n \in DOMAIN fs \cup {name} |-> IF n = name THEN data ELSE fs[n]]

\* x, _ := ioutil.ReadAll(c.Request.Body); ioutil.WriteFile(...); return
\* (the request body is read here for the first time: x is the payload sent)
hookDump(r) ==
    /\ req[r].pc = "dump"
    /\ \E x \in Payloads :
         LET name == RawFileName(req[r].token, now)
         IN /\ files' = WriteFile(files, name, x)
            /\ req' = [req EXCEPT ![r] =
                   Return([@ EXCEPT !.payload = x, !.written = Append(@, name)])]
    /\ UNCHANGED <<users, chats, users_cache, now, jobs>>

----------------------------------------------------------------------------
(* serviceHookHandler: auto-detect mode *)

\* ctx.FindChats(query) / ctx.FindUsers(query): the ids of the matched
\* documents in store result order (each document at most once)
Matches(coll) ==
    {m \in SeqsUpTo({d.ID : d \in coll}, MaxMatches) :
        \A i, j \in 1..Len(m) : i # j => m[i] # m[j]}

\* AutoResolved with the bug "a nil query is run like any other"
AutoResolved_NilQuerySearches(q, queryChat, query, found) ==
    LET s == serviceByName(q.service)
    IN IF s = Nil THEN Return(q)
       ELSE IF ~s.TokenHandler THEN Return([q EXCEPT !.ctx.ServiceName = s.Name])
       ELSE [q EXCEPT !.ctx.ServiceName = s.Name, !.queryChat = queryChat,
                      !.query = query,
                      !.found = found, !.pc = "autoloop",
                      !.lookups = Append(@, IF queryChat THEN "chats" ELSE "users")]

\* from serviceByName to the start of the loop over the matches
AutoResolved(q, queryChat, query, found) ==
    LET s == serviceByName(q.service)
    IN IF s = Nil THEN Return(q)
       ELSE IF ~s.TokenHandler THEN Return([q EXCEPT !.ctx.ServiceName = s.Name])
       ELSE IF query = "nil"
            THEN Return([q EXCEPT !.ctx.ServiceName = s.Name, !.query = query])
       ELSE [q EXCEPT !.ctx.ServiceName = s.Name, !.queryChat = queryChat,
                      !.query = query,
                      !.found = found, !.pc = "autoloop",
                      !.lookups = Append(@, IF queryChat THEN "chats" ELSE "users")]

\* what follows `err := s.WebhookHandler(&ctxCopy, wctx)` in both auto-detect loops
AutoWebhookReturned(q, err) ==
    IF err # "nil" /\ err = ErrorFlood THEN String(q, 429, ErrorFlood)
    ELSE [q EXCEPT !.found = Tail(@)]

\* one iteration of `for _, chat := range chats` / `for _, user := range users`
AutoStep(q, res) ==
    LET id == Head(q.found)
        ctxCopy == IF q.queryChat THEN [q.ctx EXCEPT !.Chat = id]
                   ELSE [q.ctx EXCEPT !.User = id, !.Chat = id]
        called == [q EXCEPT
                     !.calls = Append(@, [service |-> q.ctx.ServiceName,
                                          ctx |-> ctxCopy, user |-> q.user]),
                     !.last = res,
                     !.failed = @ \/ res = "err",
                     !.flooded = @ \/ res = ErrorFlood]
    IN IF res = "panic" THEN ginRecovery(called)
       ELSE AutoWebhookReturned(called, res)

hookAuto(r) ==
    /\ req[r].pc = "auto"
    /\ \E queryChat \in BOOLEAN, query \in {"nil", "query"} :
         \E found \in Matches(IF queryChat THEN chats ELSE users) :
            req' = [req EXCEPT ![r] = AutoResolved(@, queryChat, query, found)]
    /\ UNCHANGED <<users, chats, users_cache, files, now, jobs>>

hookAutoLoop(r) ==
    /\ req[r].pc = "autoloop"
    /\ IF req[r].found = <<>>
       THEN req' = [req EXCEPT ![r] = Return(@)]
       ELSE \E res \in HandlerResults : req' = [req EXCEPT ![r] = AutoStep(@, res)]
    /\ UNCHANGED <<users, chats, users_cache, files, now, jobs>>

serviceHookHandler(r) ==
    \/ hookEnter(r)
    \/ hookAuto(r)
    \/ hookAutoLoop(r)
    \/ hookUser(r)
    \/ hookChat(r)
    \/ hookDump(r)
    \/ hookServices(r)
    \/ hookChats(r)

\* the wall clock advances
Tick ==
    /\ now < MaxClock
    /\ now' = now + 1
    /\ UNCHANGED <<users, chats, users_cache, files, req, jobs>>

----------------------------------------------------------------------------
(* Stores the webhook router runs against *)

\* opaque per-service configuration and credential bundle
SettingsOf(names) == [n \in names |-> n]

ProtectedOf(names) ==
    [n \in names |-> [OAuthToken |-> n, OAuthRefreshToken |-> "", OAuthExpireDate |-> 0]]

UserDoc(id, hooks, settings, protected) ==
    [ID |-> id, Hooks |-> hooks, Settings |-> SettingsOf(settings),
     Protected |-> ProtectedOf(protected), tz |-> ""]

ChatDoc(id, hooks) == [ID |-> id, Hooks |-> hooks]

Hook(token, svcs, chs) == [Token |-> token, Services |-> svcs, Chats |-> chs]

HookServices == SeqsUpTo(ServiceNames, MaxServices)
HookChats == SeqsUpTo(TargetChats, MaxChats)

\* documents without hooks: private chats 10 and 20 and their users
PlainUsers == {UserDoc(id, <<>>, {}, {}) : id \in TargetChats}
PlainChats == {ChatDoc(id, <<>>) : id \in TargetChats}

\* the user owning TokU, after another hook of theirs; an id <= 0 is invalid
HookUsers ==
    {UserDoc(id, <<Hook(TokU2, <<"b", "x">>, <<20>>), Hook(TokU, S, C)>>,
             {"a", "x"}, {"b", "x"}) :
        id \in {-1, 1}, S \in HookServices, C \in HookChats}
    \cup
    {UserDoc(1, <<Hook(TokU2, <<"b", "x">>, <<20>>), Hook(TokU, S, <<10>>)>>,
             st, ServiceNames \ st) :
        S \in HookServices, st \in SUBSET ServiceNames}

\* the chat owning TokC or TokH (a group chat, id < 0); id 0 is invalid
HookChatDocs ==
    {ChatDoc(id, <<Hook(TokC2, <<"b">>, <<20>>), Hook(t, S, C)>>) :
        id \in {-30, 0}, t \in {TokC, TokH}, S \in HookServices, C \in HookChats}

NoRequests == [r \in Reqs |-> ZeroRequest]

Init ==
    /\ \/ \E d \in HookUsers : users = PlainUsers \cup {d} /\ chats = PlainChats
       \/ \E d \in HookChatDocs : users = PlainUsers /\ chats = PlainChats \cup {d}
    /\ users_cache = {}
    /\ files = <<>>
    /\ now = 0
    /\ req = NoRequests
    /\ jobs = <<>>

\* one webhook delivery, start to finish
Next == serviceHookHandler(1)

Spec == Init /\ [][Next]_vars

----------------------------------------------------------------------------
(* OAuth: correlation records and providers *)

AuthIDs == {"k1", "k2", "k3", "k4", "k5", "k6", "k0", "k9"}

\* the ids of the stored OAuth providers; "p9" is not stored
ProviderIDs == {"pa", "pb", "pc", "pd", "p9"}

oauthProviders ==
    [pa |-> [Service |-> "a", BaseURL |-> "https://a"],
     pb |-> [Service |-> "b", BaseURL |-> "https://b"],
     pc |-> [Service |-> "c", BaseURL |-> "https://c"],
     pd |-> [Service |-> "d", BaseURL |-> "https://d"]]

ZeroOAuthProvider == [Service |-> "", BaseURL |-> ""]

\* findOauthProviderByID(db, id): <<err, provider>>
findOauthProviderByID(id) ==
    {<<"nil", oauthProviders[i]>> : i \in {id} \cap DOMAIN oauthProviders}
    \cup {<<"not found", ZeroOAuthProvider>>}

\* db.C("users_cache").Find(bson.M{"key": "auth_" + authTempID}).One(&val): <<err, val>>
FindOAuthIDCache(authTempID) ==
    {<<"nil", v>> : v \in {c \in users_cache : c.key = authTempID}}
    \cup {<<"not found", ZeroOAuthIDCache>>}

\* ctx.FindUser(bson.M{"_id": id}): the stored user, the zero userData if
\* there is none (the caller drops the error)
FindUserByID(id) ==
    IF \E d \in users : d.ID = id THEN {d \in users : d.ID = id} ELSE {ZeroUserData}

\* RecordFound with the bug "any stored record is accepted"
RecordFound_AnyUser(err, val) == err = "nil"

\* err == nil && val.UserID > 0
RecordFound(err, val) == err = "nil" /\ val.UserID > 0

\* u, _ := url.Parse(val.Val.BaseURL): nil when the URL does not parse
ParsesAsURL(baseURL) == baseURL # "%"

----------------------------------------------------------------------------
(* oAuthInitRedirect *)

\* InitEntered with the bug "a service without OAuth1 is a bad request (400)"
InitEntered_BadRequest(q, err, val) ==
    IF ~RecordFound(err, val) THEN AbortWithStatus(q, 403)
    ELSE LET s == serviceByName(val.Service)
             q1 == [q EXCEPT !.val = val]
         IN IF q.tz # "" THEN [q1 EXCEPT !.pc = "tz"]
            ELSE IF s = Nil THEN ginRecovery(q1)
            ELSE IF s.DefaultOAuth1
                 THEN IF ~ParsesAsURL(val.BaseURL)
                      THEN String(q1, 500, "Error occurred")
                      ELSE [q1 EXCEPT !.ctx.ServiceName = val.Service,
                                      !.pc = "requesttoken"]
                 ELSE String(q1, 400, "Redirect is for OAuth1 only")

\* from the entry to the first store write or provider call
InitEntered(q, err, val) ==
    IF ~RecordFound(err, val) THEN AbortWithStatus(q, 403)
    ELSE LET s == serviceByName(val.Service)
             q1 == [q EXCEPT !.val = val]
         IN IF q.tz # "" THEN [q1 EXCEPT !.pc = "tz"]
            ELSE IF s = Nil THEN ginRecovery(q1)
            ELSE IF s.DefaultOAuth1
                 THEN IF ~ParsesAsURL(val.BaseURL)
                      THEN String(q1, 500, "Error occurred")
                      ELSE [q1 EXCEPT !.ctx.ServiceName = val.Service,
                                      !.pc = "requesttoken"]
                 ELSE String(q1, 501, "Redirect is for OAuth1 only")

initEnter(r) ==
    /\ req[r].pc = "idle"
    /\ \E id \in AuthIDs, tz \in {"", "Europe/Berlin"} :
         \E found \in FindOAuthIDCache(id) :
            req' = [req EXCEPT ![r] =
                InitEntered(cloneMiddleware([ZeroRequest EXCEPT
                                                !.handler = "init",
                                                !.authTempID = id, !.tz = tz]),
                            found[1], found[2])]
    /\ UNCHANGED <<users, chats, users_cache, files, now, jobs>>

\* db.C("users").Update(bson.M{"_id": val.UserID}, {"$set": {"tz": tz}})
SetTZ(coll, id, tz) ==
    {IF d.ID = id THEN [d EXCEPT !.tz = tz] ELSE d : d \in coll}

\* the Ajax request carrying tz: the update (its error is dropped), then 200
initTz(r) ==
    /\ req[r].pc = "tz"
    /\ \E updated \in BOOLEAN :
         users' = IF updated THEN SetTZ(users, req[r].val.UserID, req[r].tz) ELSE users
    /\ req' = [req EXCEPT ![r] =
                 AbortWithStatus([@ EXCEPT !.writes = Append(@, "users")], 200)]
    /\ UNCHANGED <<chats, users_cache, files, now, jobs>>

\* db.C("users_cache").Update(key, {"$set": {"val.requesttoken": requestToken}})
SetRequestToken(coll, key, requestToken) ==
    {IF c.key = key THEN [c EXCEPT !.RequestToken = requestToken] ELSE c : c \in coll}

\* GetRequestTokenAndUrl, then the update (its error is only logged) and the page
initRequestToken(r) ==
    /\ req[r].pc = "requesttoken"
    /\ \/ /\ req' = [req EXCEPT ![r] =
                 String([@ EXCEPT !.providerCalls = @ + 1], 503,
                        "Error getting OAuth request URL")]
          /\ UNCHANGED users_cache
       \/ \E requestToken \in {"rt1", "rt2"}, updated \in BOOLEAN :
             /\ users_cache' = IF updated
                               THEN SetRequestToken(users_cache, req[r].authTempID,
                                                    requestToken)
                               ELSE users_cache
             /\ req' = [req EXCEPT ![r] =
                    String([@ EXCEPT !.requestToken = requestToken,
                                     !.providerCalls = @ + 1,
                                     !.writes = Append(@, "users_cache")],
                           200, "oauthredirect.tmpl")]
    /\ UNCHANGED <<users, chats, files, now, jobs>>

oAuthInitRedirect(r) ==
    \/ initEnter(r)
    \/ initTz(r)
    \/ initRequestToken(r)

----------------------------------------------------------------------------
(* oAuthCallback *)

\* TokenChecked with the bug "only an error of the exchange stops the callback"
TokenChecked_OnlyErrorStops(q, err) ==
    IF q.accessToken = "" /\ err # "nil" THEN String(q, 403, err)
    ELSE [q EXCEPT !.pc = "save"]

\* the check of the access token after the exchange step; err.Error() on a
\* nil err is a nil dereference
TokenChecked(q, err) ==
    IF q.accessToken = ""
    THEN IF err = "nil" THEN ginRecovery(q) ELSE String(q, 403, err)
    ELSE [q EXCEPT !.pc = "save"]

\* from the entry to the provider exchange
CallbackEntered(q, err, val, perr, oap, userData) ==
    IF ~RecordFound(err, val) THEN AbortWithStatus(q, 403)
    ELSE IF perr # "nil" THEN String(q, 500, "Error occured")
    ELSE LET s == serviceByName(oap.Service)
             q1 == [q EXCEPT !.val = val, !.user = userData,
                             !.ctx = [ServiceName |-> oap.Service,
                                      User |-> userData.ID, Chat |-> userData.ID]]
         IN IF s = Nil THEN ginRecovery(q1)
            ELSE IF s.DefaultOAuth2
                 THEN IF s.AccessTokenReceiver
                      THEN [q1 EXCEPT !.exchange = "custom", !.pc = "exchange"]
                      ELSE IF q.code = ""
                           THEN Return([q1 EXCEPT !.exchange = "missing code"])
                           ELSE [q1 EXCEPT !.exchange = "default", !.pc = "exchange"]
            ELSE IF s.DefaultOAuth1
                 THEN [q1 EXCEPT !.exchange = "oauth1", !.pc = "exchange"]
                 ELSE TokenChecked([q1 EXCEPT !.exchange = "none"], perr)

cbEnter(r) ==
    /\ req[r].pc = "idle"
    /\ \E id \in AuthIDs, pid \in ProviderIDs, code \in {"", "abc"} :
         \E found \in FindOAuthIDCache(id), oap \in findOauthProviderByID(pid) :
            \E userData \in FindUserByID(found[2].UserID) :
               req' = [req EXCEPT ![r] =
                   CallbackEntered(cloneMiddleware([ZeroRequest EXCEPT
                                        !.handler = "callback",
                                        !.authTempID = id, !.oauthProviderID = pid,
                                        !.code = code]),
                                   found[1], found[2], oap[1], oap[2], userData)]
    /\ UNCHANGED <<users, chats, users_cache, files, now, jobs>>

\* what the provider exchange (Exchange, or a service's AccessTokenReceiver)
\* may return: <<accessToken, refreshToken, expiresAt, err>>; expiresAt 0 is nil
Exchanges(kind) ==
    {<<"", "", 0, e>> : e \in {"nil", "exchange failed"}}
    \cup {<<t, rt, ex, "nil">> :
            t \in {"at1", "at2"},
            rt \in IF kind = "oauth1" THEN {""} ELSE {"", "rt1"},
            ex \in IF kind = "oauth1" THEN {0} ELSE {0, 7}}

cbExchange(r) ==
    /\ req[r].pc = "exchange"
    /\ \E x \in Exchanges(req[r].exchange) :
         req' = [req EXCEPT ![r] =
            TokenChecked([@ EXCEPT !.accessToken = x[1], !.refreshToken = x[2],
                                   !.expiresAt = x[3],
                                   !.providerCalls = @ + 1], x[4])]
    /\ UNCHANGED <<users, chats, users_cache, files, now, jobs>>

\* ps, _ := ctx.User.protectedSettings(): the bundle of ctx.ServiceName
protectedSettings(userData, ServiceName) ==
    IF ServiceName \in DOMAIN userData.Protected
    THEN userData.Protected[ServiceName] ELSE ZeroProtected

\* ps.OAuthToken = accessToken; the refresh token and the expiry only if given
WithTokens(ps, q) ==
    [OAuthToken |-> q.accessToken,
     OAuthRefreshToken |-> IF q.refreshToken # "" THEN q.refreshToken
                           ELSE ps.OAuthRefreshToken,
     OAuthExpireDate |-> IF q.expiresAt # 0 THEN q.expiresAt ELSE ps.OAuthExpireDate]

\* ctx.User.saveProtectedSettings(): the bundle is stored under ctx.ServiceName
SaveProtected(coll, id, ServiceName, ps) ==
    {IF d.ID = id
     THEN [d EXCEPT !.Protected =
              [n \in DOMAIN @ \cup {ServiceName} |-> IF n = ServiceName THEN ps ELSE @[n]]]
     ELSE d : d \in coll}

\* the tokens are put into the bundle and saved; a save error is only logged
cbSave(r) ==
    /\ req[r].pc = "save"
    /\ LET q == req[r]
           ps == WithTokens(protectedSettings(q.user, q.ctx.ServiceName), q)
       IN \E saved \in BOOLEAN :
            /\ users' = IF saved
                        THEN SaveProtected(users, q.ctx.User, q.ctx.ServiceName, ps)
                        ELSE users
            /\ req' = [req EXCEPT ![r] =
                   [@ EXCEPT !.writes = Append(@, "users"), !.pc = "finish"]]
    /\ UNCHANGED <<chats, users_cache, files, now, jobs>>

\* if s.OAuthSuccessful != nil { s.DoJob(s.OAuthSuccessful, ctx) }; c.Redirect(302, ...)
cbFinish(r) ==
    /\ req[r].pc = "finish"
    /\ LET s == serviceByName(req[r].ctx.ServiceName)
       IN /\ jobs' = IF s.OAuthSuccessful
                     THEN Append(jobs, [service |-> s.Name, user |-> req[r].ctx.User,
                                        state |-> "queued"])
                     ELSE jobs
          /\ req' = [req EXCEPT ![r] =
                 Redirect([@ EXCEPT !.scheduled = s.OAuthSuccessful], 302,
                          "https://telegram.me/bot")]
    /\ UNCHANGED <<users, chats, users_cache, files, now>>

oAuthCallback(r) ==
    \/ cbEnter(r)
    \/ cbExchange(r)
    \/ cbSave(r)
    \/ cbFinish(r)

\* a job scheduled with DoJob runs on its own, whenever the workers get to
\* it, and succeeds or fails
jobRun ==
    /\ \E k \in 1..Len(jobs), result \in {"ok", "failed"} :
         /\ jobs[k].state = "queued"
         /\ jobs' = [jobs EXCEPT ![k].state = result]
    /\ UNCHANGED <<users, chats, users_cache, files, now, req>>

----------------------------------------------------------------------------
(* Stores the OAuth handlers run against *)

OAuthIDCache(key, user, service, baseURL) ==
    [key |-> key, UserID |-> user, Service |-> service, BaseURL |-> baseURL,
     RequestToken |-> ""]

\* k1..k4: one record per kind of service; k5: a BaseURL that does not parse;
\* k6: a service missing from the registry; k0: a record without a user;
\* k9: no record
InitOAuth ==
    /\ \E pr \in SUBSET {"a", "b"} :
          users = {UserDoc(1, <<>>, {}, pr), UserDoc(2, <<>>, {}, {})}
    /\ chats = {}
    /\ users_cache = {OAuthIDCache("k1", 1, "a", "https://a"),
                      OAuthIDCache("k2", 1, "b", "https://b"),
                      OAuthIDCache("k3", 2, "c", "https://c"),
                      OAuthIDCache("k4", 2, "d", "https://d"),
                      OAuthIDCache("k5", 2, "b", "%"),
                      OAuthIDCache("k6", 2, "x", "https://x"),
                      OAuthIDCache("k0", 0, "a", "https://a")}
    /\ files = <<>>
    /\ now = 0
    /\ req = NoRequests
    /\ jobs = <<>>

\* one OAuth request, start to finish
NextOAuth ==
    \/ oAuthInitRedirect(1)
    \/ oAuthCallback(1)
    \/ jobRun

SpecOAuth == InitOAuth /\ [][NextOAuth]_vars

----------------------------------------------------------------------------
(* Service.TriggerEventHandler *)

\* what an EventHandler (a service plugin) may do to the *Context it is
\* given: nothing, set ServiceName, or set User
Mutations == {"none", "ServiceName", "User"}

Mutate(ctx, m) ==
    CASE m = "ServiceName" -> [ctx EXCEPT !.ServiceName = "z"]
      [] m = "User" -> [ctx EXCEPT !.User = 99]
      [] OTHER -> ctx

\* TriggerEventHandler returns err to its caller; `closing` says whether the
\* deferred db.Session.Close() was registered
EventReturned(q, err, closing) ==
    LET q1 == [q EXCEPT !.returned = err, !.pc = "done"]
    IN IF closing THEN Close(q1) ELSE q1

\* TriggerEventStarted with the bug "the store is searched before the
\* EventHandler is looked at"
TriggerEventStarted_SearchFirst(q, s, queryChat, bsonQuery, found) ==
    LET q1 == [q EXCEPT !.handler = "event", !.service = s.Name,
                        !.queryChat = queryChat]
        q2 == [q1 EXCEPT !.handles = @ + 1,
                         !.ctx = [ZeroContext EXCEPT !.ServiceName = s.Name],
                         !.lookups = Append(@, IF queryChat THEN "chats" ELSE "users"),
                         !.found = found]
    IN IF bsonQuery = "nil" THEN EventReturned(q1, "nil", FALSE)
       ELSE IF ~s.EventHandler
            THEN EventReturned(q2, "EventHandler missed", TRUE)
            ELSE [q2 EXCEPT !.pc = "eventloop"]

\* from the entry of TriggerEventHandler to the start of its loop
TriggerEventStarted(q, s, queryChat, bsonQuery, found) ==
    LET q1 == [q EXCEPT !.handler = "event", !.service = s.Name,
                        !.queryChat = queryChat]
    IN IF ~s.EventHandler THEN EventReturned(q1, "EventHandler missed", FALSE)
       ELSE IF bsonQuery = "nil" THEN EventReturned(q1, "nil", FALSE)
       ELSE [q1 EXCEPT !.handles = @ + 1,
                       !.ctx = [ZeroContext EXCEPT !.ServiceName = s.Name],
                       !.lookups = Append(@, IF queryChat THEN "chats" ELSE "users"),
                       !.found = found,
                       !.pc = "eventloop"]

\* EventHandlerReturned with the bug "the flood error ends the fan-out"
EventHandlerReturned_FloodStops(q, err) ==
    IF err = ErrorFlood THEN EventReturned(q, ErrorFlood, TRUE)
    ELSE [q EXCEPT !.found = Tail(@)]

\* what follows `err := s.EventHandler(ctx, data)`: the error is only logged
EventHandlerReturned(q, err) == [q EXCEPT !.found = Tail(@)]

\* one iteration of `for _, chat := range chats` / `for _, user := range users`:
\* ctx is the one *Context of the call, set for the match and handed to the
\* handler, which may change it
EventStep(q, res, m) ==
    LET id == Head(q.found)
        ctx == IF q.queryChat THEN [q.ctx EXCEPT !.Chat = id]
               ELSE [q.ctx EXCEPT !.User = id, !.Chat = id]
        called == [q EXCEPT
                     !.calls = Append(@, [service |-> q.service, ctx |-> ctx,
                                          user |-> q.user]),
                     !.last = res,
                     !.failed = @ \/ res = "err",
                     !.flooded = @ \/ res = ErrorFlood,
                     !.ctx = Mutate(ctx, m)]
    IN IF res = "panic" THEN EventReturned(called, "panic", TRUE)
       ELSE EventHandlerReturned(called, res)

eventEnter(r) ==
    /\ req[r].pc = "idle"
    /\ \E name \in DOMAIN services, queryChat \in BOOLEAN,
          bsonQuery \in {"nil", "query"} :
         \E found \in Matches(IF queryChat THEN chats ELSE users) :
            req' = [req EXCEPT ![r] =
                TriggerEventStarted(ZeroRequest, services[name], queryChat,
                                    bsonQuery, found)]
    /\ UNCHANGED <<users, chats, users_cache, files, now, jobs>>

eventLoop(r) ==
    /\ req[r].pc = "eventloop"
    /\ IF req[r].found = <<>>
       THEN req' = [req EXCEPT ![r] = EventReturned(@, "nil", TRUE)]
       ELSE \E res \in HandlerResults, m \in Mutations :
               req' = [req EXCEPT ![r] = EventStep(@, res, m)]
    /\ UNCHANGED <<users, chats, users_cache, files, now, jobs>>

TriggerEventHandler(r) ==
    \/ eventEnter(r)
    \/ eventLoop(r)

\* the stores an event fan-out runs against: the private chats and their users
InitEvent ==
    /\ users = PlainUsers
    /\ chats = PlainChats
    /\ users_cache = {}
    /\ files = <<>>
    /\ now = 0
    /\ req = NoRequests
    /\ jobs = <<>>

\* one call of TriggerEventHandler, start to finish
NextEvent == TriggerEventHandler(1)

SpecEvent == InitEvent /\ [][NextEvent]_vars

----------------------------------------------------------------------------
(* The three handlers together, each against its stores *)

InitAll == Init \/ InitOAuth

\* one request of any of the three handlers, start to finish
NextAll ==
    \/ serviceHookHandler(1)
    \/ oAuthInitRedirect(1)
    \/ oAuthCallback(1)

SpecAll == InitAll /\ [][NextAll]_vars

----------------------------------------------------------------------------
(* Concurrent webhook deliveries and TriggerEventHandler calls *)

\* a delivery to a chat token, to an unknown chat token, to an unroutable
\* token, and an auto-detect delivery
ConcRoutes == {<<TokC, "">>, <<TokCX, "">>, <<TokBad, "">>, <<<<>>, "a">>}

\* one group chat holding TokC for service "a" and chat 10; no users
InitConc ==
    /\ users = {}
    /\ chats = {ChatDoc(-30, <<Hook(TokC, <<"a">>, <<10>>)>>)}
    /\ users_cache = {}
    /\ files = <<>>
    /\ now = 0
    /\ req = NoRequests
    /\ jobs = <<>>

\* every slot runs one request or one call; the slots interleave step by step
NextConc ==
    \E r \in Reqs :
        \/ hookEnterOn(r, ConcRoutes)
        \/ hookAuto(r)
        \/ hookAutoLoop(r)
        \/ hookChat(r)
        \/ hookDump(r)
        \/ hookServices(r)
        \/ hookChats(r)
        \/ eventEnter(r)
        \/ eventLoop(r)

SpecConc == InitConc /\ [][NextConc]_vars

----------------------------------------------------------------------------
(* Concurrent deliveries to tokens that resolve to no valid owner *)

\* POST /:param
TokenRoutes == {<<t, "">> : t \in PathTokens}

\* TokU is held by a user document with an invalid id, TokC by a chat
\* document with id 0; the other tokens are held by no document
InitDump ==
    /\ users = PlainUsers \cup {UserDoc(-1, <<Hook(TokU, <<"a">>, <<10>>)>>, {"a"}, {"a"})}
    /\ chats = PlainChats \cup {ChatDoc(0, <<Hook(TokC, <<"a">>, <<10>>)>>)}
    /\ users_cache = {}
    /\ files = <<>>
    /\ now = 0
    /\ req = NoRequests
    /\ jobs = <<>>

NextDump ==
    \/ \E r \in Reqs :
          \/ hookEnterOn(r, TokenRoutes)
          \/ hookUser(r)
          \/ hookChat(r)
          \/ hookDump(r)
    \/ Tick

SpecDump == InitDump /\ [][NextDump]_vars

----------------------------------------------------------------------------
(* Vocabulary of the properties *)

\* the (service, chat) targets WebhookHandler was invoked for, in order
Pairs(q) == [k \in 1..Len(q.calls) |-> <<q.calls[k].service, q.calls[k].ctx.Chat>>]

IsPrefix(s, t) == Len(s) <= Len(t) /\ \A k \in 1..Len(s) : s[k] = t[k]

\* service-major, chat-minor product of two lists
Product(S, C) ==
    [k \in 1..(Len(S) * Len(C)) |->
        <<S[((k - 1) \div Len(C)) + 1], C[((k - 1) % Len(C)) + 1]>>]

IsRegistered(name) == name \in {"a", "b", "c", "d"}

TokenAddressed(q) ==
    q.handler = "hook" /\ q.token # <<>> /\ q.token[1] \in {"u", "c", "h"}
    /\ ~(q.service # "" /\ q.token = TokService)

UserAddressed(q) == TokenAddressed(q) /\ q.token[1] = "u"

\* the stored documents owning the request's token, and the hook it names
Owners(q) ==
    {d \in (IF q.token[1] = "u" THEN users ELSE chats) :
        \E h \in Range(d.Hooks) : h.Token = q.token}

OwnerOf(q) == CHOOSE d \in Owners(q) : TRUE

StoredHook(q) == CHOOSE h \in Range(OwnerOf(q).Hooks) : h.Token = q.token

\* the owner lookup succeeded: a user with id > 0, or a chat with id # 0
Resolved(q) ==
    /\ TokenAddressed(q)
    /\ q.pc \notin {"idle", "user", "chat", "dump"}
    /\ q.written = <<>>
    /\ Owners(q) # {}

\* the request ended by running its loop to the end: no flood, no panic
RanToEnd(q) == q.pc = "done" /\ ~q.flooded /\ q.last # "panic"

\* C1. Flood short-circuit: once a WebhookHandler invocation of a request has
\* returned the flood error (in the dispatch loop or in either auto-detect
\* loop), that invocation is the request's last one, the request is over and
\* its response status is 429.
FloodShortCircuit ==
    \A r \in Reqs :
        req[r].flooded =>
            /\ req[r].last = ErrorFlood
            /\ req[r].pc = "done"
            /\ req[r].status = 429

\* flood returned by the last of four targets, after an earlier success
FloodShortCircuitWitness ==
    \E r \in Reqs :
        /\ TokenAddressed(req[r])
        /\ req[r].flooded
        /\ req[r].isHandled
        /\ Pairs(req[r]) = <<<<"a", 10>>, <<"a", 20>>, <<"b", 10>>, <<"b", 20>>>>

\* C2. Fan-out order: for a token-addressed delivery whose matched Hook lists
\* only registered services and at least one chat, the invocations made so far
\* are always a prefix of (s1,c1),...,(s1,cm),(s2,c1),...,(sn,cm), and are
\* exactly that sequence once the loop has run to its end.
FanOutOrder ==
    \A r \in Reqs :
        Resolved(req[r]) =>
            LET H == StoredHook(req[r])
            IN ((\A k \in 1..Len(H.Services) : IsRegistered(H.Services[k]))
                    /\ H.Chats # <<>>) =>
                 /\ IsPrefix(Pairs(req[r]), Product(H.Services, H.Chats))
                 /\ RanToEnd(req[r]) =>
                        Pairs(req[r]) = Product(H.Services, H.Chats)

FanOutOrderWitness ==
    \E r \in Reqs :
        /\ Resolved(req[r])
        /\ RanToEnd(req[r])
        /\ StoredHook(req[r]).Services = <<"a", "b">>
        /\ StoredHook(req[r]).Chats = <<10, 20>>
        /\ Len(req[r].calls) = 4

\* the targets of a matched hook: its registered services, each with the
\* hook's chats or, when it has none, with the chat resolved from the token
Targets(q) ==
    LET H == StoredHook(q)
        C == IF H.Chats # <<>> THEN H.Chats
             ELSE IF q.token[1] = "u" THEN <<>> ELSE <<OwnerOf(q).ID>>
    IN Product(SelectSeq(H.Services, IsRegistered), C)

\* C3. Partial-failure tolerance: a non-flood error returned by a
\* WebhookHandler never ends the dispatch loop: the invocations are always a
\* prefix of the hook's targets, and a request in which some invocation
\* failed and whose loop ran to its end has invoked every target, in order.
PartialFailureTolerance ==
    \A r \in Reqs :
        Resolved(req[r]) =>
            /\ IsPrefix(Pairs(req[r]), Targets(req[r]))
            /\ (req[r].failed /\ RanToEnd(req[r])) => Pairs(req[r]) = Targets(req[r])
            /\ (req[r].last = "err" /\ Len(req[r].calls) < Len(Targets(req[r])))
                   => req[r].pc # "done"

\* every one of four targets failed with a non-flood error, all were invoked
PartialFailureToleranceWitness ==
    \E r \in Reqs :
        /\ Resolved(req[r])
        /\ req[r].failed
        /\ ~req[r].isHandled
        /\ RanToEnd(req[r])
        /\ Len(req[r].calls) = 4

\* C4. Acknowledgment is decoupled from success: a token-addressed delivery
\* whose owner lookup succeeded and whose loop ran to its end is answered 200,
\* whatever the handlers returned; a non-flood error leaves the status
\* unwritten while the loop is still running.
AckDecoupled ==
    \A r \in Reqs :
        Resolved(req[r]) =>
            /\ RanToEnd(req[r]) => req[r].status = 200
            /\ (req[r].pc # "done") => req[r].status = 0

\* 200 although every service of the hook is missing from the registry
AckDecoupledWitness ==
    \E r \in Reqs :
        /\ Resolved(req[r])
        /\ RanToEnd(req[r])
        /\ req[r].status = 200
        /\ req[r].calls = <<>>
        /\ StoredHook(req[r]).Services = <<"x", "x">>
        /\ StoredHook(req[r]).Chats # <<>>

\* C5. Secret scoping: in user-addressed mode, from the resolution on and at
\* every WebhookHandler invocation, the keys of the user's Settings and
\* Protected are services of the matched hook, and every stored key the hook
\* names is kept with its stored value.
Scoped(m, stored, H) ==
    /\ DOMAIN m \subseteq Range(H.Services)
    /\ \A n \in DOMAIN stored \cap Range(H.Services) :
           n \in DOMAIN m /\ m[n] = stored[n]

SecretScoping ==
    \A r \in Reqs :
        (UserAddressed(req[r]) /\ Resolved(req[r])) =>
            LET H == StoredHook(req[r])
                d == OwnerOf(req[r])
            IN /\ Scoped(req[r].user.Settings, d.Settings, H)
               /\ Scoped(req[r].user.Protected, d.Protected, H)
               /\ \A k \in 1..Len(req[r].calls) :
                     /\ Scoped(req[r].calls[k].user.Settings, d.Settings, H)
                     /\ Scoped(req[r].calls[k].user.Protected, d.Protected, H)

\* a handler ran for a hook naming "a" while the stored user also holds
\* credentials for "b" and "x": it sees those of "a" only
SecretScopingWitness ==
    \E r \in Reqs :
        /\ UserAddressed(req[r]) /\ Resolved(req[r])
        /\ Len(req[r].calls) > 0
        /\ DOMAIN OwnerOf(req[r]).Protected = {"a", "b", "x"}
        /\ DOMAIN req[r].calls[1].user.Protected = {"a"}

\* the stored owners of the request's token that the handler accepts
ValidOwners(q) ==
    {d \in Owners(q) : IF q.token[1] = "u" THEN d.ID > 0 ELSE d.ID # 0}

\* C9. Unknown token is dropped silently: a 'u', 'c' or 'h' token held by no
\* valid owner gets no WebhookHandler invocation, no status and no body at any
\* point of the request, and the finished request has written exactly one
\* file, named by its token and a timestamp, holding a delivered payload.
UnknownTokenSilent ==
    \A r \in Reqs :
        (TokenAddressed(req[r]) /\ ValidOwners(req[r]) = {}) =>
            /\ req[r].calls = <<>>
            /\ req[r].status = 0
            /\ req[r].body = ""
            /\ req[r].pc # "done" => req[r].written = <<>>
            /\ req[r].pc = "done" =>
                  /\ Len(req[r].written) = 1
                  /\ \E t \in 0..now : req[r].written[1] = <<req[r].token, t>>
                  /\ req[r].written[1] \in DOMAIN files
                  /\ \E w \in Reqs :
                        /\ req[w].written = req[r].written
                        /\ files[req[r].written[1]] = req[w].payload

\* a 'u' token held by a user with id -1, dumped in second 1
UnknownTokenSilentWitness ==
    \E r \in Reqs :
        /\ req[r].token = TokU
        /\ req[r].pc = "done"
        /\ req[r].user.ID = -1
        /\ req[r].written = <<<<TokU, 1>>>>
        /\ files[<<TokU, 1>>] = req[r].payload

\* C10. Unknown-token idempotence: two deliveries of the same payload to the
\* same unresolvable token leave two distinct dump files and two silent
\* responses.
TwoDumps ==
    \A r1, r2 \in Reqs :
        (/\ r1 # r2
         /\ TokenAddressed(req[r1])
         /\ req[r1].pc = "done" /\ req[r2].pc = "done"
         /\ ValidOwners(req[r1]) = {}
         /\ req[r1].token = req[r2].token
         /\ req[r1].payload = req[r2].payload)
        => /\ req[r1].status = 0 /\ req[r2].status = 0
           /\ req[r1].body = "" /\ req[r2].body = ""
           /\ req[r1].written # req[r2].written
           /\ Cardinality(DOMAIN files) >= 2

\* the stored correlation records with the request's ephemeral id and a user
Correlations(q) == {c \in users_cache : c.key = q.authTempID /\ c.UserID > 0}

\* C6. OAuth round-trip: whenever oAuthCallback answers with the redirect, the
\* user named by the request's correlation record holds, under the service
\* named by that record, the access token the exchange returned.
OAuthRoundTrip ==
    \A r \in Reqs :
        (req[r].handler = "callback" /\ req[r].status = 302) =>
            \A c \in Correlations(req[r]) :
                \E d \in users :
                    /\ d.ID = c.UserID
                    /\ c.Service \in DOMAIN d.Protected
                    /\ d.Protected[c.Service].OAuthToken = req[r].accessToken

\* C7. Empty access token is a hard failure: a callback with a valid record
\* and a known provider whose exchange step ended with an empty access token
\* is answered 403, writes nothing, schedules no job and sends no redirect.
EmptyTokenIs403 ==
    \A r \in Reqs :
        (/\ req[r].handler = "callback"
         /\ req[r].exchange # ""
         /\ req[r].accessToken = ""
         /\ req[r].pc = "done")
        => /\ req[r].status = 403
           /\ req[r].writes = <<>>
           /\ ~req[r].scheduled
           /\ req[r].location = ""

\* C8. Unknown OAuth correlation: oAuthInitRedirect and oAuthCallback given an
\* ephemeral id with no correlation record of a user (UserID > 0) answer 403
\* at once: no provider call, no store write, no job, no redirect.
UnknownCorrelation ==
    \A r \in Reqs :
        (req[r].handler \in {"init", "callback"} /\ Correlations(req[r]) = {}) =>
            /\ req[r].pc = "done"
            /\ req[r].status = 403
            /\ req[r].providerCalls = 0
            /\ req[r].writes = <<>>
            /\ ~req[r].scheduled
            /\ req[r].location = ""
            /\ jobs = <<>>

\* a callback whose state names the stored record k0, which has UserID 0,
\* on the path of a known provider and with a code
UnknownCorrelationWitness ==
    \E r \in Reqs :
        /\ req[r].handler = "callback"
        /\ req[r].authTempID = "k0"
        /\ req[r].oauthProviderID = "pa"
        /\ req[r].code = "abc"
        /\ req[r].status = 403

\* the request is in auto-detect mode: a service name with the placeholder
\* token or with no token
AutoDetect(q) == q.service # "" /\ (q.token = TokService \/ q.token = <<>>)

UnroutableNonEmpty404 ==
    \A r \in Reqs :
        (/\ req[r].handler = "hook"
         /\ ~AutoDetect(req[r])
         /\ req[r].token # <<>>
         /\ req[r].token[1] \notin {"u", "c", "h"}) =>
            /\ req[r].pc = "done"
            /\ req[r].status = 404
            /\ req[r].lookups = <<>>
            /\ req[r].written = <<>>
            /\ req[r].calls = <<>>

\* the chats a matched hook targets: its own, else the chat the token resolved
TargetChatsOf(q) ==
    LET H == StoredHook(q)
    IN IF H.Chats # <<>> THEN Range(H.Chats)
       ELSE IF q.token[1] = "u" THEN {} ELSE {OwnerOf(q).ID}

\* C13. Target set of a token-addressed dispatch: every invocation is for a
\* service of the hook whose Token is the request's and for one of its chats
\* or, when it lists none, for the chat resolved from the token; a loop that
\* ran to its end has invoked each registered service of that hook once per
\* such chat and is answered 200; a user-token hook without chats gets no
\* invocation at all and is still answered 200.
TargetSet ==
    \A r \in Reqs :
        Resolved(req[r]) =>
            LET q == req[r]
                H == StoredHook(q)
            IN /\ \A k \in 1..Len(q.calls) :
                     /\ q.calls[k].service \in Range(H.Services)
                     /\ q.calls[k].ctx.Chat \in TargetChatsOf(q)
               /\ RanToEnd(q) =>
                     /\ q.status = 200
                     /\ Len(q.calls) = Len(Targets(q))
                     /\ \A n \in Range(H.Services), c \in TargetChatsOf(q) :
                           IsRegistered(n) => \E k \in 1..Len(q.calls) :
                                                 Pairs(q)[k] = <<n, c>>
               /\ (q.token[1] = "u" /\ H.Chats = <<>>) => q.calls = <<>>

\* a chat token whose hook lists two services and no chat: both services are
\* invoked for the owning chat -30, and the owner's other hook for nothing
TargetSetWitness ==
    \E r \in Reqs :
        /\ Resolved(req[r])
        /\ RanToEnd(req[r])
        /\ req[r].token = TokC
        /\ StoredHook(req[r]).Chats = <<>>
        /\ Pairs(req[r]) = <<<<"a", -30>>, <<"b", -30>>>>

\* an OAuth init without tz that read a valid correlation record naming a
\* registered service without OAuth1 configuration
InitWithoutOAuth1(q) ==
    /\ q.handler = "init"
    /\ q.tz = ""
    /\ q.val.UserID > 0
    /\ serviceByName(q.val.Service) # Nil
    /\ ~serviceByName(q.val.Service).DefaultOAuth1

\* the statuses a response may carry besides those of `codes`: none written
\* (status 0), or the redirect of oAuthCallback
StatusAmong(q, codes) ==
    \/ q.status = 0
    \/ q.status \in codes
    \/ q.status = 302 /\ q.location # ""

\* C14 as stated. Closed set of response codes: every status written by the
\* three handlers that is not a redirect is one of 200, 403, 404, 429, 500,
\* 501, and 501 is the answer exactly of an OAuth init without tz for a
\* service without OAuth1 configuration.
ClosedResponseCodes ==
    \A r \in Reqs :
        /\ StatusAmong(req[r], {200, 403, 404, 429, 500, 501})
        /\ req[r].status = 501 <=> (req[r].pc = "done" /\ InitWithoutOAuth1(req[r]))

\* C14, amended. The closed set of response codes is 200, 403, 404, 429, 500,
\* 501 and 503; 503 is the answer exactly of an OAuth init whose provider
\* failed to issue a request token, 501 exactly of an OAuth init without tz
\* for a service without OAuth1 configuration.
ClosedResponseCodesWith503 ==
    \A r \in Reqs :
        /\ StatusAmong(req[r], {200, 403, 404, 429, 500, 501, 503})
        /\ req[r].status = 501 <=> (req[r].pc = "done" /\ InitWithoutOAuth1(req[r]))
        /\ req[r].status = 503 =>
              /\ req[r].handler = "init"
              /\ req[r].providerCalls = 1
              /\ req[r].writes = <<>>

\* an OAuth1 init for record k2 whose provider call failed: 503
ClosedResponseCodesWitness ==
    \E r \in Reqs :
        /\ req[r].handler = "init"
        /\ req[r].authTempID = "k2"
        /\ req[r].providerCalls = 1
        /\ req[r].status = 503

\* C15. Internal event fan-out: a Service without EventHandler gets an error
\* back at once, with no store lookup and no invocation; otherwise the
\* EventHandler invocations made so far are always for a prefix of the
\* matches in store result order, an error returned for a match (the
\* flood error too) never ends the call, and a call that returned without a
\* panic returned nil after one invocation per match.
EventFanOut ==
    \A r \in Reqs :
        req[r].handler = "event" =>
            LET q == req[r]
                invoked == [k \in 1..Len(q.calls) |->
                               IF q.queryChat THEN q.calls[k].ctx.Chat
                               ELSE q.calls[k].ctx.User]
            IN /\ ~services[q.service].EventHandler =>
                     /\ q.pc = "done"
                     /\ q.returned \notin {"", "nil"}
                     /\ q.lookups = <<>>
                     /\ q.calls = <<>>
               /\ q.lookups # <<>> =>
                     \E m \in Matches(IF q.queryChat THEN chats ELSE users) :
                        /\ m = invoked \o (IF q.last = "panic" THEN Tail(q.found)
                                            ELSE q.found)
                        /\ \A k \in 1..Len(q.calls) :
                              q.calls[k].ctx.Chat = m[k]
               /\ (q.last \in {"err", ErrorFlood} /\ q.found # <<>>) => q.pc # "done"
               /\ (q.pc = "done" /\ services[q.service].EventHandler
                      /\ q.last # "panic") =>
                     /\ q.returned = "nil"
                     /\ q.found = <<>>

\* two users matched; the handler returned the flood error for the first and
\* was still invoked for the second; the call returned nil
EventFanOutWitness ==
    \E r \in Reqs :
        /\ req[r].handler = "event"
        /\ ~req[r].queryChat
        /\ req[r].flooded
        /\ req[r].last = "nil"
        /\ Len(req[r].calls) = 2
        /\ req[r].calls[1].ctx.User # req[r].calls[2].ctx.User
        /\ req[r].returned = "nil"

\* C16. Context isolation between fan-out targets: the context an
\* EventHandler invocation receives is the call's base context (the
\* Service's name, no user in a chat fan-out) scoped to its own match,
\* whatever the handlers invoked for earlier matches did to theirs.
ContextIsolation ==
    \A r \in Reqs :
        req[r].handler = "event" =>
            \A k \in 1..Len(req[r].calls) :
                LET ctx == req[r].calls[k].ctx
                IN /\ ctx.ServiceName = req[r].service
                   /\ req[r].queryChat => ctx.User = 0
                   /\ ~req[r].queryChat => ctx.User = ctx.Chat

\* the requests and calls that have begun and are not over
InFlight == {r \in Reqs : req[r].pc \notin {"idle", "done"}}

\* the slots holding a store handle that is not closed
OpenHandles == {r \in Reqs : req[r].handles > req[r].closes}

\* a TriggerEventHandler call that returned before cloning the session: the
\* Service has no EventHandler, or the query is nil
ReturnedEarly(q) == q.handler = "event" /\ q.pc = "done" /\ q.lookups = <<>>

\* C17 as stated. Store-handle discipline: every request and every
\* TriggerEventHandler call holds exactly one handle from its start, and has
\* closed it exactly once when it is over, on every exit path; the open
\* handles are never more than the requests and calls in flight, none when
\* all are over.
HandleDiscipline ==
    /\ \A r \in Reqs :
          /\ req[r].pc # "idle" => req[r].handles = 1
          /\ req[r].pc \notin {"idle", "done"} => req[r].closes = 0
          /\ req[r].pc = "done" => req[r].closes = 1
    /\ Cardinality(OpenHandles) <= Cardinality(InFlight)

\* C17, amended. As stated, except that a TriggerEventHandler call that
\* returns early (no EventHandler, or a nil query) acquires no handle and
\* closes none.
HandleDisciplineButEarlyReturn ==
    /\ \A r \in Reqs :
          LET one == IF ReturnedEarly(req[r]) THEN 0 ELSE 1
          IN /\ req[r].pc # "idle" => req[r].handles = one
             /\ req[r].pc \notin {"idle", "done"} => req[r].closes = 0
             /\ req[r].pc = "done" => req[r].closes = one
    /\ Cardinality(OpenHandles) <= Cardinality(InFlight)
    /\ OpenHandles \subseteq InFlight

\* every slot is over, each on another exit path, one of them a delivery
\* whose handler panicked (500): no handle is open
HandleDisciplineWitness ==
    /\ \A r \in Reqs : req[r].pc = "done"
    /\ \A r1, r2 \in Reqs :
          r1 # r2 => <<req[r1].handler, req[r1].status, req[r1].returned>>
                       # <<req[r2].handler, req[r2].status, req[r2].returned>>
    /\ \E r \in Reqs : req[r].handler = "hook" /\ req[r].status = 500
    /\ OpenHandles = {}

\* the stored correlation record a finished Init read
StoredRecord(q) == CHOOSE c \in users_cache : c.key = q.authTempID

\* C18. OAuth1 init state machine, for an Init that read a valid correlation
\* record: (a) with tz it ends with a bare 200, the tz stored on the record's
\* User, no provider call and the record as it was; (b) without tz, on an
\* OAuth1 service, the redirect page is rendered only with the request token
\* the provider issued stored on the record (the token a later callback
\* exchanges the verifier against); a provider failure renders no page
\* and leaves the record as it was.
OAuth1InitStateMachine ==
    \A r \in Reqs :
        (req[r].handler = "init" /\ req[r].pc = "done" /\ req[r].val.UserID > 0) =>
            LET q == req[r]
                rendered == q.status = 200 /\ q.body = "oauthredirect.tmpl"
            IN /\ q.tz # "" =>
                     /\ q.status = 200 /\ q.body = ""
                     /\ \A d \in users : d.ID = q.val.UserID => d.tz = q.tz
                     /\ q.providerCalls = 0
                     /\ StoredRecord(q) = q.val
               /\ rendered =>
                     /\ q.tz = ""
                     /\ serviceByName(q.val.Service).DefaultOAuth1
                     /\ q.requestToken # ""
                     /\ StoredRecord(q).RequestToken = q.requestToken
               /\ (q.providerCalls > 0 /\ ~rendered) =>
                     /\ q.status # 200
                     /\ StoredRecord(q) = q.val

\* the part of C18 that holds whatever the store does: no provider call and
\* no change of the record with tz, no page and no change of the record
\* when the provider fails
OAuth1InitLeavesRecord ==
    \A r \in Reqs :
        (req[r].handler = "init" /\ req[r].pc = "done" /\ req[r].val.UserID > 0) =>
            LET q == req[r]
                rendered == q.status = 200 /\ q.body = "oauthredirect.tmpl"
            IN /\ q.tz # "" =>
                     /\ q.status = 200 /\ q.body = ""
                     /\ q.providerCalls = 0
                     /\ StoredRecord(q) = q.val
               /\ rendered =>
                     /\ q.tz = ""
                     /\ serviceByName(q.val.Service).DefaultOAuth1
                     /\ StoredRecord(q).RequestToken \in {q.requestToken, q.val.RequestToken}
               /\ (q.providerCalls > 0 /\ ~rendered) =>
                     /\ q.status # 200
                     /\ StoredRecord(q) = q.val

\* C19. OAuth success callback ordering: a callback schedules the
\* OAuthSuccessful job at most once, only with a non-empty access token and
\* only once the step that persists the tokens is behind it; never on a
\* path answered 403 or 500; and the response is the redirect whether the job
\* is still queued, has run, or has failed.
SuccessJobOrdering ==
    \A r \in Reqs :
        req[r].handler = "callback" =>
            LET q == req[r]
            IN /\ Len(jobs) = IF q.scheduled THEN 1 ELSE 0
               /\ q.scheduled =>
                     /\ q.accessToken # ""
                     /\ q.writes = <<"users">>
                     /\ serviceByName(q.ctx.ServiceName).OAuthSuccessful
                     /\ q.status = 302 /\ q.location # ""
               /\ q.status \in {403, 500} => ~q.scheduled
               /\ (q.status = 302 /\ serviceByName(q.ctx.ServiceName).OAuthSuccessful)
                     => q.scheduled

\* the redirect is out and the job, run afterwards, has failed
SuccessJobOrderingWitness ==
    \E r \in Reqs :
        /\ req[r].handler = "callback"
        /\ req[r].status = 302
        /\ req[r].scheduled
        /\ Len(jobs) = 1
        /\ jobs[1].state = "failed"

\* C20. Auto-detect mode: an unknown service, a service without TokenHandler
\* and a nil query each end the request with no store lookup, no invocation
\* and no status; after a non-nil query the invocations made so far are
\* always for a prefix of the matches in store result order, each with the
\* request's context scoped to its match (the request's own context is left
\* as it was); only the flood error ends the loop early, with 429, and a
\* loop that ran to its end has invoked every match once and wrote no status.
AutoDetectMode ==
    \A r \in Reqs :
        (req[r].handler = "hook" /\ AutoDetect(req[r]) /\ req[r].pc # "auto") =>
            LET q == req[r]
                s == serviceByName(q.service)
                invoked == [k \in 1..Len(q.calls) |-> q.calls[k].ctx.Chat]
            IN /\ (s = Nil \/ ~s.TokenHandler \/ q.query = "nil") =>
                     /\ q.pc = "done"
                     /\ q.lookups = <<>>
                     /\ q.calls = <<>>
                     /\ q.status = 0
               /\ (s # Nil /\ s.TokenHandler /\ q.query # "nil") =>
                     /\ q.lookups = <<IF q.queryChat THEN "chats" ELSE "users">>
                     /\ \E m \in Matches(IF q.queryChat THEN chats ELSE users) :
                           m = invoked \o (IF q.last \in {"panic", ErrorFlood}
                                           THEN Tail(q.found) ELSE q.found)
                     /\ \A k \in 1..Len(q.calls) :
                           /\ q.calls[k].service = s.Name
                           /\ q.calls[k].ctx.ServiceName = s.Name
                           /\ q.calls[k].ctx.User =
                                 IF q.queryChat THEN 0 ELSE q.calls[k].ctx.Chat
                     /\ q.ctx = [ZeroContext EXCEPT !.ServiceName = s.Name]
                     /\ (q.last \in {"nil", "err"} /\ q.found # <<>>) => q.pc # "done"
                     /\ q.flooded => (q.pc = "done" /\ q.status = 429)
                     /\ RanToEnd(q) => (q.found = <<>> /\ q.status = 0)

\* a user query matched two users; the handler failed for the first, was
\* invoked for the second, and the request ended without a status
AutoDetectModeWitness ==
    \E r \in Reqs :
        /\ AutoDetect(req[r])
        /\ ~req[r].queryChat
        /\ RanToEnd(req[r])
        /\ req[r].failed
        /\ Len(req[r].calls) = 2
        /\ req[r].calls[1].ctx.User # req[r].calls[2].ctx.User
        /\ req[r].status = 0

====
